---- MODULE Spec2Model ----
(***************************************************************************)
(* Model of the classified-ads JSON API of project/ads/views.py: the       *)
(* Category and Ad stores and one action per view handler.                 *)
(*                                                                         *)
(* A JSON request body is a record whose DOMAIN is the set of keys the     *)
(* body holds: `k in ad_data` is Has(req, k), ad_data.get(k) on a missing  *)
(* key is None (a pk no row has), and ad_data[k] on a missing key is a     *)
(* KeyError, an unhandled exception (status 500).  The variable last is    *)
(* the request being answered and its response.                            *)
(***************************************************************************)
EXTENDS Integers, Sequences, FiniteSets, TLC

VARIABLES categories, ads, nextCategoryId, nextAdId, last

vars == <<categories, ads, nextCategoryId, nextAdId, last>>

(* ------------------------------ bounds -------------------------------- *)

\* Primary keys the Category store hands out before the model stops creating.
MaxCategoryId == 2
\* Primary keys the Ad store hands out before the model stops creating.
MaxAdId == 2
\* Ads in a store drawn by the listing specification.
MaxListAds == 3

(* ----------------------------- constants ------------------------------ *)

\* settings.TOTAL_ON_PAGE, the page size handed to Paginator.
TOTAL_ON_PAGE == 2

\* JSON null / Python None in a string-valued position.
Null == "null"

\* users.models.User rows: only id, first_name and role are read here.
Users ==
    [u \in {1, 2, 3} |->
        CASE u = 1 -> [first_name |-> "Ann", role |-> "admin"]
          [] u = 2 -> [first_name |-> "Bob", role |-> "moderator"]
          [] u = 3 -> [first_name |-> "Cid", role |-> "member"]]

\* Names in collation order, as ORDER BY name compares them.
NameOrder == <<"", "a", "b">>

Names == {NameOrder[i] : i \in 1..Len(NameOrder)}

NameRank(n) == CHOOSE i \in 1..Len(NameOrder) : NameOrder[i] = n

Prices == {10, 20}

ImageUrl == "/media/images/pic.png"

(* ------------------------------ helpers ------------------------------- *)

\* `key in ad_data`.
Has(req, key) == key \in DOMAIN req

\* get_object_or_404(User, pk=..., role=...): 0 stands for Http404.
GetUser(req, key, role) ==
    IF Has(req, key) /\ req[key] \in DOMAIN Users /\ Users[req[key]].role = role
    THEN req[key]
    ELSE 0

\* get_object_or_404(Category, pk=...): 0 stands for Http404.
GetCategory(req, key) ==
    IF Has(req, key) /\ req[key] \in DOMAIN categories THEN req[key] ELSE 0

\* Model.full_clean() of a Category: name is a required (non-blank) field.
CategoryClean(c) == c.name # ""

\* Model.full_clean() of an Ad: name is a required (non-blank) field.
AdClean(a) == a.name # ""

\* The reverse relation 'ad' of a category: the ads that reference it.
AdsOf(cid) == {a \in DOMAIN ads : ads[a].category_id = cid}

\* on_delete=CASCADE of Ad.category: the ads that go with a deleted category.
Cascade(cid) == AdsOf(cid)

\* The function f without the keys in S.
Without(f, S) == [k \in DOMAIN f \ S |-> f[k]]

\* The function f with key k (new or not) bound to v.
With(f, k, v) == [x \in DOMAIN f \cup {k} |-> IF x = k THEN v ELSE f[x]]

\* The JSON object every Ad view returns for one ad of a store.
AdJson(store, id) ==
    [id          |-> id,
     name        |-> store[id].name,
     author_id   |-> store[id].author_id,
     author      |-> Users[store[id].author_id].first_name,
     price       |-> store[id].price,
     description |-> store[id].description,
     is_published |-> store[id].is_published,
     category_id |-> store[id].category_id,
     image       |-> IF store[id].image # "" THEN store[id].image ELSE Null]

CategoryJson(store, id) == [id |-> id, name |-> store[id].name]

NoBody == [none |-> TRUE]

Reply(op, args, status, body) ==
    [op |-> op, args |-> args, status |-> status, body |-> body]

NoReply == Reply("none", [none |-> TRUE], 0, NoBody)

\* A handler runs from the request to its response; the next request is
\* taken once the response has left.
Idle == last = NoReply

(* --------------------------- Category views --------------------------- *)

\* All orders of the ids of S, as sequences.
Perms(S) ==
    {p \in [1..Cardinality(S) -> S] : \A i, j \in DOMAIN p : i # j => p[i] # p[j]}

\* Mutant: the queryset without its order_by('name').
CategoryQuerysetsUnordered == Perms(DOMAIN categories)

\* Category.objects.annotate(num_ads=Count('ad')).order_by('name'): rows of
\* equal name come in an order the database chooses.
CategoryQuerysets ==
    {p \in Perms(DOMAIN categories) :
        \A i, j \in DOMAIN p :
            i < j => NameRank(categories[p[i]].name) <= NameRank(categories[p[j]].name)}

CategoryList ==
    /\ Idle
    /\ \E q \in CategoryQuerysets :
        last' = Reply("listCategories", [none |-> TRUE], 200,
                    [items |-> [i \in DOMAIN q |->
                        [id |-> q[i],
                         name |-> categories[q[i]].name,
                         ads_number |-> Cardinality(AdsOf(q[i]))]]])
    /\ UNCHANGED <<categories, ads, nextCategoryId, nextAdId>>

CategoryCreate(req) ==
    /\ Idle
    /\ nextCategoryId <= MaxCategoryId
    /\ categories' = With(categories, nextCategoryId, [name |-> req.name])
    /\ nextCategoryId' = nextCategoryId + 1
    /\ last' = Reply("createCategory", req, 200,
                     [id |-> nextCategoryId, name |-> req.name])
    /\ UNCHANGED <<ads, nextAdId>>

CategoryDetail(id) ==
    /\ Idle
    /\ last' = IF id \in DOMAIN categories
               THEN Reply("getCategory", [id |-> id], 200, CategoryJson(categories, id))
               ELSE Reply("getCategory", [id |-> id], 404, NoBody)
    /\ UNCHANGED <<categories, ads, nextCategoryId, nextAdId>>

CategoryDelete(id) ==
    /\ Idle
    /\ IF id \in DOMAIN categories
       THEN /\ categories' = Without(categories, {id})
            /\ ads' = Without(ads, Cascade(id))
            /\ last' = Reply("deleteCategory", [id |-> id], 200, [status |-> "ok"])
       ELSE /\ last' = Reply("deleteCategory", [id |-> id], 404, NoBody)
            /\ UNCHANGED <<categories, ads>>
    /\ UNCHANGED <<nextCategoryId, nextAdId>>

\* Mutant: the name is saved without full_clean, as createCategory saves it.
CategoryUpdateUnvalidated(id, req) ==
    /\ Idle
    /\ id \in DOMAIN categories
    /\ Has(req, "name")
    /\ categories' = [categories EXCEPT ![id].name = req.name]
    /\ last' = Reply("updateCategory", [id |-> id, req |-> req], 200,
                     [id |-> id, name |-> req.name])
    /\ UNCHANGED <<ads, nextCategoryId, nextAdId>>

\* UpdateView.post builds its form from request.POST, which a JSON body
\* leaves without the field name: the form is invalid and saves nothing.
CategoryUpdate(id, req) ==
    /\ Idle
    /\ IF id \notin DOMAIN categories
       THEN /\ last' = Reply("updateCategory", [id |-> id, req |-> req], 404, NoBody)
            /\ UNCHANGED categories
       ELSE IF ~Has(req, "name")
       THEN /\ last' = Reply("updateCategory", [id |-> id, req |-> req], 500, NoBody)
            /\ UNCHANGED categories
       ELSE LET object == [categories[id] EXCEPT !.name = req.name] IN
            IF ~CategoryClean(object)
            THEN /\ last' = Reply("updateCategory", [id |-> id, req |-> req], 422,
                                  [name |-> "This field cannot be blank."])
                 /\ UNCHANGED categories
            ELSE /\ categories' = [categories EXCEPT ![id] = object]
                 /\ last' = Reply("updateCategory", [id |-> id, req |-> req], 200,
                                  [id |-> id, name |-> object.name])
    /\ UNCHANGED <<ads, nextCategoryId, nextAdId>>

(* ------------------------------ Ad views ------------------------------ *)

\* Ad.objects.select_related('author').order_by('-price'): rows of equal
\* price come in an order the database chooses.
AdQuerysets ==
    {p \in Perms(DOMAIN ads) :
        \A i, j \in DOMAIN p : i < j => ads[p[i]].price >= ads[p[j]].price}

\* Mutant: the page count rounded down.
NumPagesFloor(count, per_page) == count \div per_page

\* Paginator.num_pages (orphans = 0, allow_empty_first_page = True):
\* ceil(max(1, count) / per_page).
NumPages(count, per_page) ==
    LET hits == IF count > 1 THEN count ELSE 1
    IN  (hits + per_page - 1) \div per_page

\* Paginator.get_page(number): a number below 1 or beyond the last page is
\* an EmptyPage, answered with the last page.
ValidNumber(number, count, per_page) ==
    IF number < 1 THEN NumPages(count, per_page)
    ELSE IF number > NumPages(count, per_page) /\ number # 1
         THEN NumPages(count, per_page)
         ELSE number

\* Paginator.page(number): object_list[bottom:top].
PageOf(q, number, per_page) ==
    LET n      == ValidNumber(number, Len(q), per_page)
        bottom == (n - 1) * per_page
        top    == IF bottom + per_page >= Len(q) THEN Len(q) ELSE bottom + per_page
    IN  SubSeq(q, bottom + 1, top)

\* Mutant: the page test of a handler that pages only from page 2 on.
AdListRowsFromTwo(q, req) ==
    LET page == IF Has(req, "page") THEN req.page ELSE 0
    IN  IF page > 1 THEN PageOf(q, page, TOTAL_ON_PAGE) ELSE q

\* The rows AdListView.get iterates: one page when int(page) is truthy,
\* the whole queryset otherwise.
AdListRows(q, req) ==
    LET page == IF Has(req, "page") THEN req.page ELSE 0
    IN  IF page # 0 THEN PageOf(q, page, TOTAL_ON_PAGE) ELSE q

AdList(req) ==
    /\ Idle
    /\ \E q \in AdQuerysets :
        LET obj == AdListRows(q, req) IN
        last' = Reply("listAds", req, 200,
                      [items     |-> [i \in DOMAIN obj |-> AdJson(ads, obj[i])],
                       total     |-> Len(q),
                       num_pages |-> NumPages(Len(q), TOTAL_ON_PAGE)])
    /\ UNCHANGED <<categories, ads, nextCategoryId, nextAdId>>

\* bool(ad_data.get('is_bublished')): the key the handler reads.
IsPublishedOf(req) == Has(req, "is_bublished") /\ req.is_bublished

\* The bodies sent hold name, price and description; author_id is read
\* with a subscript and category_id with .get.
AdCreate(req) ==
    /\ Idle
    /\ IF ~Has(req, "author_id")
       THEN /\ last' = Reply("createAd", req, 500, NoBody)
            /\ UNCHANGED <<ads, nextAdId>>
       ELSE IF GetUser(req, "author_id", "admin") = 0
               \/ GetCategory(req, "category_id") = 0
       THEN /\ last' = Reply("createAd", req, 404, NoBody)
            /\ UNCHANGED <<ads, nextAdId>>
       ELSE /\ nextAdId <= MaxAdId
            /\ ads' = With(ads, nextAdId,
                        [name         |-> req.name,
                         author_id    |-> GetUser(req, "author_id", "admin"),
                         category_id  |-> GetCategory(req, "category_id"),
                         price        |-> req.price,
                         description  |-> req.description,
                         is_published |-> IsPublishedOf(req),
                         image        |-> ""])
            /\ nextAdId' = nextAdId + 1
            /\ last' = Reply("createAd", req, 200, AdJson(ads', nextAdId))
    /\ UNCHANGED <<categories, nextCategoryId>>

\* The response of AdDetailView.get for the ad id of the current store.
AdDetailReply(id) ==
    IF id \in DOMAIN ads
    THEN Reply("getAd", [id |-> id], 200, AdJson(ads, id))
    ELSE Reply("getAd", [id |-> id], 404, NoBody)

AdDetail(id) ==
    /\ Idle
    /\ last' = AdDetailReply(id)
    /\ UNCHANGED <<categories, ads, nextCategoryId, nextAdId>>

\* Mutant: a delete that answers ok whether or not the ad exists.
AdDeleteAny(id) ==
    /\ Idle
    /\ ads' = Without(ads, {id})
    /\ last' = Reply("deleteAd", [id |-> id], 200, [status |-> "ok"])
    /\ UNCHANGED <<categories, nextCategoryId, nextAdId>>

AdDelete(id) ==
    /\ Idle
    /\ IF id \in DOMAIN ads
       THEN /\ ads' = Without(ads, {id})
            /\ last' = Reply("deleteAd", [id |-> id], 200, [status |-> "ok"])
       ELSE /\ last' = Reply("deleteAd", [id |-> id], 404, NoBody)
            /\ UNCHANGED ads
    /\ UNCHANGED <<categories, nextCategoryId, nextAdId>>

\* Mutant: author and category follow the keys author_id and category_id.
AdApplyById(object, req, author, category) ==
    [name         |-> IF Has(req, "name") THEN req.name ELSE object.name,
     author_id    |-> IF Has(req, "author_id") THEN author ELSE object.author_id,
     price        |-> IF Has(req, "price") THEN req.price ELSE object.price,
     description  |-> IF Has(req, "description") THEN req.description
                      ELSE object.description,
     category_id  |-> IF Has(req, "category_id") THEN category ELSE object.category_id,
     is_published |-> object.is_published,
     image        |-> object.image]

\* The assignments of AdUpdateView.post, one per key present in the body.
AdApply(object, req, author, category) ==
    [name         |-> IF Has(req, "name") THEN req.name ELSE object.name,
     author_id    |-> IF Has(req, "author") THEN author ELSE object.author_id,
     price        |-> IF Has(req, "price") THEN req.price ELSE object.price,
     description  |-> IF Has(req, "description") THEN req.description
                      ELSE object.description,
     category_id  |-> IF Has(req, "category") THEN category ELSE object.category_id,
     is_published |-> object.is_published,
     image        |-> object.image]

\* Mutant: the user and the category are looked up only when the body
\* carries the key that assigns them.
AdUpdateLazy(id, req) ==
    /\ Idle
    /\ IF id \notin DOMAIN ads
          \/ (Has(req, "author") /\ GetUser(req, "author_id", "moderator") = 0)
          \/ (Has(req, "category") /\ GetCategory(req, "category_id") = 0)
       THEN /\ last' = Reply("updateAd", [id |-> id, req |-> req], 404, NoBody)
            /\ UNCHANGED ads
       ELSE LET object == AdApply(ads[id], req,
                                  GetUser(req, "author_id", "moderator"),
                                  GetCategory(req, "category_id")) IN
            IF ~AdClean(object)
            THEN /\ last' = Reply("updateAd", [id |-> id, req |-> req], 422,
                                  [name |-> "This field cannot be blank."])
                 /\ UNCHANGED ads
            ELSE /\ ads' = [ads EXCEPT ![id] = object]
                 /\ last' = Reply("updateAd", [id |-> id, req |-> req], 200,
                                  AdJson(ads', id))
    /\ UNCHANGED <<categories, nextCategoryId, nextAdId>>

\* UpdateView.post builds its form from request.POST, which a JSON body
\* leaves without the required fields: the form is invalid and saves nothing.
AdUpdate(id, req) ==
    /\ Idle
    /\ IF id \notin DOMAIN ads
       THEN /\ last' = Reply("updateAd", [id |-> id, req |-> req], 404, NoBody)
            /\ UNCHANGED ads
       ELSE IF GetUser(req, "author_id", "moderator") = 0
               \/ GetCategory(req, "category_id") = 0
       THEN /\ last' = Reply("updateAd", [id |-> id, req |-> req], 404, NoBody)
            /\ UNCHANGED ads
       ELSE LET object == AdApply(ads[id], req,
                                  GetUser(req, "author_id", "moderator"),
                                  GetCategory(req, "category_id")) IN
            IF ~AdClean(object)
            THEN /\ last' = Reply("updateAd", [id |-> id, req |-> req], 422,
                                  [name |-> "This field cannot be blank."])
                 /\ UNCHANGED ads
            ELSE /\ ads' = [ads EXCEPT ![id] = object]
                 /\ last' = Reply("updateAd", [id |-> id, req |-> req], 200,
                                  AdJson(ads', id))
    /\ UNCHANGED <<categories, nextCategoryId, nextAdId>>

\* UpdateView.post with fields = ['image'] and an image in request.FILES:
\* the form is valid (it validates the image field alone) and form_valid
\* saves the object with the new image before the handler's own code runs.
AdUploadImage(id) ==
    /\ Idle
    /\ IF id \notin DOMAIN ads
       THEN /\ last' = Reply("uploadAdImage", [id |-> id], 404, NoBody)
            /\ UNCHANGED ads
       ELSE LET object == [ads[id] EXCEPT !.image = ImageUrl] IN
            /\ ads' = [ads EXCEPT ![id] = object]
            /\ last' = IF ~AdClean(object)
                       THEN Reply("uploadAdImage", [id |-> id], 422,
                                  [name |-> "This field cannot be blank."])
                       ELSE Reply("uploadAdImage", [id |-> id], 200, AdJson(ads', id))
    /\ UNCHANGED <<categories, nextCategoryId, nextAdId>>

(* --------------------------- request bodies --------------------------- *)

\* The record r cut down to the keys K.
Restrict(r, K) == [k \in K |-> r[k]]

\* Every body that holds the keys Required, any of the keys Optional, and
\* the values of a record of R under them.
Bodies(R, Required, Optional) ==
    {Restrict(r, Required \cup K) : r \in R, K \in SUBSET Optional}

CategoryIds == 1..(MaxCategoryId + 1)

AdIds == 1..(MaxAdId + 1)

\* Ids of the three users and one id no user has.
UserIds == 1..4

CategoryCreateBodies == [name : Names]

CategoryUpdateBodies == Bodies([name : Names], {}, {"name"})

AdCreateBodies ==
    Bodies([name : {"a"}, author_id : UserIds, category_id : CategoryIds,
            price : {10}, description : {"d"}, is_published : BOOLEAN],
           {"name", "price", "description", "is_published"},
           {"author_id", "category_id"})

\* Bodies of updateAd that name a moderator and a category and may carry
\* the key "category".
AdUpdateBodies ==
    Bodies([author_id : {2}, category_id : CategoryIds, category : {0}],
           {"author_id", "category_id"}, {"category"})

\* Every partial body of updateAd over one new value per field.
AdUpdateBodiesAll ==
    Bodies([name : {"", "b"}, author : {0}, price : {20}, description : {"e"},
            category : {0}, author_id : {1, 2}, category_id : {1, 3}],
           {},
           {"name", "author", "price", "description", "category",
            "author_id", "category_id"})

Pages == -1..(MaxListAds + 1)

AdListBodies == Bodies([page : Pages], {}, {"page"})

(* --------------------------- specifications --------------------------- *)

\* The response leaves; the next request can be taken.
Deliver ==
    /\ last # NoReply
    /\ last' = NoReply
    /\ UNCHANGED <<categories, ads, nextCategoryId, nextAdId>>

\* The API over an empty database.
Init ==
    /\ categories = << >>
    /\ ads = << >>
    /\ nextCategoryId = 1
    /\ nextAdId = 1
    /\ last = NoReply

Next ==
    \/ Deliver
    \/ CategoryList
    \/ \E req \in CategoryCreateBodies : CategoryCreate(req)
    \/ \E id \in CategoryIds : CategoryDetail(id)
    \/ \E id \in CategoryIds : CategoryDelete(id)
    \/ \E id \in CategoryIds, req \in CategoryUpdateBodies : CategoryUpdate(id, req)
    \/ \E req \in AdListBodies : AdList(req)
    \/ \E req \in AdCreateBodies : AdCreate(req)
    \/ \E id \in AdIds : AdDetail(id)
    \/ \E id \in AdIds : AdDelete(id)
    \/ \E id \in AdIds, req \in AdUpdateBodies : AdUpdate(id, req)
    \/ \E id \in AdIds : AdUploadImage(id)

Spec == Init /\ [][Next]_vars

\* One stored ad of any content over two categories, and every partial
\* body of updateAd.
SeedAds ==
    [name : {"", "a"}, author_id : {1, 2}, price : {10}, description : {"d"},
     is_published : BOOLEAN, category_id : {1, 2}, image : {"", ImageUrl}]

InitUpdate ==
    /\ categories = <<[name |-> "a"], [name |-> "b"]>>
    /\ ads \in {<<a>> : a \in SeedAds}
    /\ nextCategoryId = 3
    /\ nextAdId = 2
    /\ last = NoReply

NextUpdate ==
    \/ Deliver
    \/ \E id \in {1, 2}, req \in AdUpdateBodiesAll : AdUpdate(id, req)
    \/ \E id \in {1, 2} : AdUploadImage(id)
    \/ \E id \in {1, 2} : AdDetail(id)

SpecUpdate == InitUpdate /\ [][NextUpdate]_vars

\* Stores of up to MaxListAds ads of any prices, listed with every page.
ListAd(price) ==
    [name |-> "a", author_id |-> 1, price |-> price, description |-> "d",
     is_published |-> FALSE, category_id |-> 1, image |-> ""]

InitList ==
    /\ categories = <<[name |-> "a"]>>
    /\ \E n \in 0..MaxListAds :
        /\ ads \in {[i \in 1..n |-> ListAd(p[i])] : p \in [1..n -> Prices]}
        /\ nextAdId = n + 1
    /\ nextCategoryId = 2
    /\ last = NoReply

NextList ==
    \/ Deliver
    \/ \E req \in AdListBodies : AdList(req)
    \/ CategoryList

SpecList == InitList /\ [][NextList]_vars

(* ------------------------------- claims ------------------------------- *)

\* The ids of the items of a listing, in order.
ItemIds(items) == {items[i].id : i \in DOMAIN items}

IsListAds == last.op = "listAds"

\* The page the handler reads: int(request.GET.get('page', 0)).
PageParam == IF Has(last.args, "page") THEN last.args.page ELSE 0

AllAdsListed ==
    /\ Len(last.body.items) = Cardinality(DOMAIN ads)
    /\ ItemIds(last.body.items) = DOMAIN ads

C8_TotalAndPages ==
    IsListAds =>
        LET n == Cardinality(DOMAIN ads)
            k == last.body.num_pages
        IN  /\ last.body.total = n
            /\ k >= 1
            /\ k * TOTAL_ON_PAGE >= n
            /\ (k > 1 => (k - 1) * TOTAL_ON_PAGE < n)

\* A page request whose items are fewer than total, with a last page that
\* is not full.
C8_Witness ==
    /\ IsListAds
    /\ PageParam = 2
    /\ last.body.total = TOTAL_ON_PAGE + 1
    /\ last.body.num_pages = 2
    /\ Len(last.body.items) = 1

\* Whether a createAd body names an admin and an existing category.
CreateAdResolves(req, cats) ==
    /\ Has(req, "author_id")
    /\ req.author_id \in DOMAIN Users
    /\ Users[req.author_id].role = "admin"
    /\ Has(req, "category_id")
    /\ req.category_id \in DOMAIN cats

\* C2, as stated: createAd inserts an ad only when author_id resolves to an
\* admin and category_id to an existing category; otherwise (the author id
\* missing or not an admin's, or the category id not existing) it fails
\* with 404 and the stored ads are unchanged.
C2_AsStated ==
    [][last'.op = "createAd" =>
          IF CreateAdResolves(last'.args, categories)
          THEN last'.status = 200 /\ DOMAIN ads' = DOMAIN ads \cup {last'.body.id}
          ELSE last'.status = 404 /\ ads' = ads]_vars

\* C3, as stated: once createAd has succeeded, fetching the ad by the id
\* returned yields every submitted field, is_published included, and a
\* null image.
C3_AsStated ==
    (last.op = "createAd" /\ last.status = 200) =>
        LET got == AdDetailReply(last.body.id) IN
        /\ got.status = 200
        /\ got.body.name = last.args.name
        /\ got.body.author_id = last.args.author_id
        /\ got.body.category_id = last.args.category_id
        /\ got.body.price = last.args.price
        /\ got.body.description = last.args.description
        /\ got.body.is_published = last.args.is_published
        /\ got.body.image = Null

\* C4: updateCategory of an existing category with an empty name answers
\* 422 and leaves the stored categories as they were.
C4_EmptyNameRejected ==
    [][(/\ last'.op = "updateCategory"
        /\ last'.args.id \in DOMAIN categories
        /\ Has(last'.args.req, "name")
        /\ last'.args.req.name = "")
       => (/\ last'.status = 422
           /\ categories' = categories)]_vars

\* An empty name refused for a category whose stored name is not empty.
C4_Witness ==
    /\ last.op = "updateCategory"
    /\ last.status = 422
    /\ last.args.req.name = ""
    /\ categories[last.args.id].name = "b"

\* C5, as stated: createCategory with an empty name fails with 422 and
\* inserts nothing, so every stored category has a non-empty name.
C5_AsStated ==
    /\ (last.op = "createCategory" /\ last.args.name = "") => last.status = 422
    /\ \A c \in DOMAIN categories : categories[c].name # ""

\* C6: deleteCategory and deleteAd of an id no record has answer 404 and
\* leave categories and ads unchanged; of an id a record has, they answer
\* status ok and remove that record alone, and with a category its ads.
C6_Delete ==
    [][/\ last'.op = "deleteCategory" =>
            LET id == last'.args.id IN
            IF id \in DOMAIN categories
            THEN /\ last'.status = 200
                 /\ last'.body.status = "ok"
                 /\ DOMAIN categories' = DOMAIN categories \ {id}
                 /\ \A c \in DOMAIN categories' : categories'[c] = categories[c]
                 /\ DOMAIN ads' = {a \in DOMAIN ads : ads[a].category_id # id}
                 /\ \A a \in DOMAIN ads' : ads'[a] = ads[a]
            ELSE /\ last'.status = 404
                 /\ categories' = categories
                 /\ ads' = ads
       /\ last'.op = "deleteAd" =>
            LET id == last'.args.id IN
            IF id \in DOMAIN ads
            THEN /\ last'.status = 200
                 /\ last'.body.status = "ok"
                 /\ DOMAIN ads' = DOMAIN ads \ {id}
                 /\ \A a \in DOMAIN ads' : ads'[a] = ads[a]
                 /\ categories' = categories
            ELSE /\ last'.status = 404
                 /\ categories' = categories
                 /\ ads' = ads]_vars

\* A category deleted while another category and its ad stay, every ad
\* ever created but that one gone.
C6_Witness ==
    /\ last.op = "deleteCategory"
    /\ last.status = 200
    /\ DOMAIN categories # {}
    /\ nextAdId = MaxAdId + 1
    /\ Cardinality(DOMAIN ads) = 1

\* Whether an updateAd body names a moderator and an existing category.
UpdateAdResolves(req, cats) ==
    /\ Has(req, "author_id")
    /\ req.author_id \in DOMAIN Users
    /\ Users[req.author_id].role = "moderator"
    /\ Has(req, "category_id")
    /\ req.category_id \in DOMAIN cats

\* C7: updateAd of an existing ad whose body does not name a moderator by
\* author_id and an existing category by category_id (either key absent
\* included) answers 404 and changes no stored ad, whichever other keys the
\* body holds.
C7_LookupsAlways ==
    [][(/\ last'.op = "updateAd"
        /\ last'.args.id \in DOMAIN ads
        /\ ~UpdateAdResolves(last'.args.req, categories))
       => (/\ last'.status = 404
           /\ ads' = ads)]_vars

\* A body holding nothing but a valid new name, refused with 404.
C7_Witness ==
    /\ last.op = "updateAd"
    /\ last.status = 404
    /\ last.args.id \in DOMAIN ads
    /\ DOMAIN last.args.req = {"name"}
    /\ last.args.req.name = "b"

\* C9: listCategories returns every stored category exactly once, ordered
\* by name, each with its stored name and with ads_number the number of
\* stored ads of that category; an empty store gives an empty list.
C9_CategoryList ==
    last.op = "listCategories" =>
        LET items == last.body.items IN
        /\ Len(items) = Cardinality(DOMAIN categories)
        /\ ItemIds(items) = DOMAIN categories
        /\ \A i \in DOMAIN items :
            /\ items[i].name = categories[items[i].id].name
            /\ items[i].ads_number =
                   Cardinality({a \in DOMAIN ads : ads[a].category_id = items[i].id})
        /\ \A i, j \in DOMAIN items :
            i < j => NameRank(items[i].name) <= NameRank(items[j].name)

\* Two categories listed against the order of their ids, the first with
\* ads.
C9_Witness ==
    /\ last.op = "listCategories"
    /\ Len(last.body.items) = 2
    /\ last.body.items[1].id > last.body.items[2].id
    /\ last.body.items[1].name # last.body.items[2].name
    /\ last.body.items[1].ads_number = 2

\* C10: a successful updateAd sets name, price and description to the
\* body's values where their keys are present, the author to the moderator
\* of author_id where the key "author" is present, the category to the one
\* of category_id where the key "category" is present, keeps every field
\* whose key is absent, and never changes is_published, image, the ad's id
\* or another ad.
C10_OnlyPresentKeys ==
    [][(last'.op = "updateAd" /\ last'.status = 200) =>
          LET id  == last'.args.id
              req == last'.args.req
              old == ads[id]
              new == ads'[id]
          IN  /\ DOMAIN ads' = DOMAIN ads
              /\ \A a \in DOMAIN ads \ {id} : ads'[a] = ads[a]
              /\ new.name = IF Has(req, "name") THEN req.name ELSE old.name
              /\ new.price = IF Has(req, "price") THEN req.price ELSE old.price
              /\ new.description =
                     IF Has(req, "description") THEN req.description
                     ELSE old.description
              /\ new.author_id =
                     IF Has(req, "author") THEN req.author_id ELSE old.author_id
              /\ Users[new.author_id].role = "moderator" \/ ~Has(req, "author")
              /\ new.category_id =
                     IF Has(req, "category") THEN req.category_id
                     ELSE old.category_id
              /\ new.is_published = old.is_published
              /\ new.image = old.image]_vars

\* An update whose body names a moderator and a category but carries
\* neither the key "author" nor the key "category": the ad keeps its admin
\* author and its other category, and takes the new price.
C10_Witness ==
    /\ last.op = "updateAd"
    /\ last.status = 200
    /\ DOMAIN last.args.req = {"author_id", "category_id", "price"}
    /\ ads[last.args.id].author_id = 1
    /\ ads[last.args.id].category_id # last.args.req.category_id
    /\ ads[last.args.id].price = last.args.req.price

====
